---- MODULE Spec2Model ----
(***************************************************************************)
(* A model of src/main.py: the delayed-delivery scheduler of TelegramTui  *)
(* (schedule_message_from_ui, _run_job, _cleanup_loop, on_shutdown), the   *)
(* forum-topic paginator get_all_forum_topics, the time-text parser        *)
(* parse_datetime and the delivery adapter send_text_to_target.            *)
(*                                                                         *)
(* Text is a sequence of one-character strings.  A point in time (a naive  *)
(* datetime) is the number of seconds since 2000-01-01 00:00:00.  An       *)
(* optional value is <<>> (None) or <<v>>.                                 *)
(***************************************************************************)
EXTENDS Integers, Sequences, FiniteSets, TLC

(***************************************************************************)
(* Optional values                                                         *)
(***************************************************************************)
None == <<>>
Some(v) == <<v>>
IsNone(o) == o = <<>>
Val(o) == o[1]

(***************************************************************************)
(* Text helpers: str.strip, str.split, int()                               *)
(***************************************************************************)
Digits == {"0", "1", "2", "3", "4", "5", "6", "7", "8", "9"}

DigitVal(c) ==
  CASE c = "0" -> 0 [] c = "1" -> 1 [] c = "2" -> 2 [] c = "3" -> 3
    [] c = "4" -> 4 [] c = "5" -> 5 [] c = "6" -> 6 [] c = "7" -> 7
    [] c = "8" -> 8 [] c = "9" -> 9

IsSpace(c) == c = " "

RECURSIVE LStrip(_)
LStrip(s) ==
  IF s # <<>> /\ IsSpace(Head(s)) THEN LStrip(Tail(s)) ELSE s

RECURSIVE RStrip(_)
RStrip(s) ==
  IF s # <<>> /\ IsSpace(s[Len(s)]) THEN RStrip(SubSeq(s, 1, Len(s) - 1)) ELSE s

\* str.strip()
Strip(s) == RStrip(LStrip(s))

\* c in s
Contains(s, c) == \E i \in 1..Len(s) : s[i] = c

\* s.split(sep): always at least one part
RECURSIVE SplitFrom(_, _, _)
SplitFrom(s, sep, cur) ==
  IF s = <<>> THEN <<cur>>
  ELSE IF Head(s) = sep THEN <<cur>> \o SplitFrom(Tail(s), sep, <<>>)
  ELSE SplitFrom(Tail(s), sep, Append(cur, Head(s)))

Split(s, sep) == SplitFrom(s, sep, <<>>)

IsDigits(s) == s # <<>> /\ \A i \in 1..Len(s) : s[i] \in Digits

RECURSIVE DigitsVal(_)
DigitsVal(s) ==
  IF s = <<>> THEN 0 ELSE DigitsVal(SubSeq(s, 1, Len(s) - 1)) * 10 + DigitVal(s[Len(s)])

\* int(text): surrounding blanks and one sign are accepted; None stands for ValueError
PyInt(text) ==
  LET s == Strip(text)
      signed == s # <<>> /\ Head(s) \in {"+", "-"}
      body == IF signed THEN Tail(s) ELSE s
  IN  IF ~IsDigits(body) THEN None
      ELSE IF signed /\ Head(s) = "-" THEN Some(0 - DigitsVal(body))
      ELSE Some(DigitsVal(body))

(***************************************************************************)
(* Calendar: datetime(...), date.today(), timedelta                        *)
(***************************************************************************)
SecondsPerDay == 86400

IsLeap(y) == (y % 4 = 0) /\ ((y % 100 # 0) \/ (y % 400 = 0))

DaysInMonth(y, m) ==
  CASE m \in {1, 3, 5, 7, 8, 10, 12} -> 31
    [] m \in {4, 6, 9, 11} -> 30
    [] m = 2 -> IF IsLeap(y) THEN 29 ELSE 28

RECURSIVE DaysBeforeMonth(_, _)
DaysBeforeMonth(y, m) ==
  IF m = 1 THEN 0 ELSE DaysBeforeMonth(y, m - 1) + DaysInMonth(y, m - 1)

DaysBeforeYear(y) ==
  (y - 1) * 365 + ((y - 1) \div 4) - ((y - 1) \div 100) + ((y - 1) \div 400)

\* date(y, m, d).toordinal()
Ordinal(y, m, d) == DaysBeforeYear(y) + DaysBeforeMonth(y, m) + d

EpochOrdinal == Ordinal(2000, 1, 1)

\* datetime(y, m, d, hh, mm, ss); None stands for ValueError (a component out of range)
MakeDateTime(y, m, d, hh, mm, ss) ==
  IF /\ y \in 1..9999 /\ m \in 1..12
     /\ d >= 1 /\ (m \in 1..12 => d <= DaysInMonth(y, m))
     /\ hh \in 0..23 /\ mm \in 0..59 /\ ss \in 0..59
  THEN Some((Ordinal(y, m, d) - EpochOrdinal) * SecondsPerDay + hh * 3600 + mm * 60 + ss)
  ELSE None

\* a constructor that lets an hour of 24 or a minute of 60 run over
TodayAtRunningOver(now, hh, mm, ss) ==
  IF hh \in 0..24 /\ mm \in 0..60 /\ ss \in 0..60
  THEN Some((now \div SecondsPerDay) * SecondsPerDay + hh * 3600 + mm * 60 + ss)
  ELSE None

\* datetime(today.year, today.month, today.day, hh, mm, ss), today being the day of `now`
TodayAt(now, hh, mm, ss) ==
  IF hh \in 0..23 /\ mm \in 0..59 /\ ss \in 0..59
  THEN Some((now \div SecondsPerDay) * SecondsPerDay + hh * 3600 + mm * 60 + ss)
  ELSE None

(***************************************************************************)
(* parse_datetime                                                          *)
(***************************************************************************)
\* One numeric field of a strptime format: 1..maxLen digits (exactly maxLen when
\* `exact`), value inside lo..hi.
Field(s, exact, maxLen, lo, hi) ==
  IF /\ IsDigits(s)
     /\ Len(s) <= maxLen
     /\ (exact => Len(s) = maxLen)
     /\ DigitsVal(s) \in lo..hi
  THEN Some(DigitsVal(s))
  ELSE None

\* the pieces of s between runs of blanks (the format's " " matches \s+)
Words(s) == SelectSeq(Split(s, " "), LAMBDA w : w # <<>>)

\* the "%H:%M" half of both dated formats
ClockFields(s) ==
  LET p == Split(s, ":")
  IN  IF Len(p) # 2 THEN None
      ELSE LET hh == Field(p[1], FALSE, 2, 0, 23)
               mm == Field(p[2], FALSE, 2, 0, 59)
           IN  IF IsNone(hh) \/ IsNone(mm) THEN None ELSE Some(<<Val(hh), Val(mm)>>)

\* datetime.strptime(s, "%Y-%m-%d %H:%M") (fmt = "ymd") and
\* datetime.strptime(s, "%d.%m.%Y %H:%M") (fmt = "dmy"); None stands for ValueError
Strptime(s, fmt) ==
  LET w == Words(s)
  IN  IF Len(w) # 2 \/ (s # <<>> /\ (IsSpace(Head(s)) \/ IsSpace(s[Len(s)]))) THEN None
      ELSE LET sep == IF fmt = "ymd" THEN "-" ELSE "."
               dp == Split(w[1], sep)
               hm == ClockFields(w[2])
           IN  IF Len(dp) # 3 \/ IsNone(hm) THEN None
               ELSE LET yy == Field(dp[IF fmt = "ymd" THEN 1 ELSE 3], TRUE, 4, 0, 9999)
                        mo == Field(dp[2], FALSE, 2, 1, 12)
                        dd == Field(dp[IF fmt = "ymd" THEN 3 ELSE 1], FALSE, 2, 1, 31)
                    IN  IF IsNone(yy) \/ IsNone(mo) \/ IsNone(dd) THEN None
                        ELSE MakeDateTime(Val(yy), Val(mo), Val(dd),
                                          Val(hm)[1], Val(hm)[2], 0)

\* the two formats of the loop at the end of parse_datetime, in its order
DatedFormats == <<"ymd", "dmy">>

\* the time-only branch: the result of the try block, None when it falls through
\* (neither shape, or an exception swallowed by `except Exception: pass`)
ParseTimeOnly(s, now) ==
  LET parts == Split(s, ":")
  IN  IF Len(parts) = 2
      THEN LET hh == PyInt(parts[1])
               mm == PyInt(parts[2])
           IN  IF IsNone(hh) \/ IsNone(mm) THEN None
               ELSE TodayAt(now, Val(hh), Val(mm), 0)
      ELSE IF Len(parts) = 3 /\ ~Contains(s, " ")
      THEN LET hh == PyInt(parts[1])
               mm == PyInt(parts[2])
               ss == PyInt(parts[3])
           IN  IF IsNone(hh) \/ IsNone(mm) \/ IsNone(ss) THEN None
               ELSE TodayAt(now, Val(hh), Val(mm), Val(ss))
      ELSE None

\* parse_datetime(user_text), `now` being the local clock read by date.today()
parse_datetime(user_text, now) ==
  LET s == Strip(user_text)
      t == ParseTimeOnly(s, now)
  IN  IF ~IsNone(t) THEN t
      ELSE IF ~IsNone(Strptime(s, DatedFormats[1])) THEN Strptime(s, DatedFormats[1])
      ELSE IF ~IsNone(Strptime(s, DatedFormats[2])) THEN Strptime(s, DatedFormats[2])
      ELSE None

(***************************************************************************)
(* Bounds and input sets of the scheduler model                            *)
(***************************************************************************)
MaxJobs == 2
\* how many cleanup intervals the clock may run past StartClock
MaxIntervals == 2

\* 2024-01-01 10:00:00, the local clock when the application is constructed
StartClock == Val(MakeDateTime(2024, 1, 1, 10, 0, 0))

\* the values get_time_delta_ntp may have returned (seconds)
Offsets == {0, 45}

WhenTexts ==
  { <<"1", "0", ":", "0", "2">>,                      \* later today
    <<"2", "0", "2", "4", "-", "0", "1", "-", "0", "1", " ", "0", "9", ":", "5", "9">>,  \* dated, already past
    <<"2", "4", ":", "0", "0">> }                     \* hour out of range: no grammar takes it

MessageTexts == { <<" ", " ">>, <<" ", "h", "i">> }

\* SendTarget(dialog, topic_id): topic_id is None, or Some(id)
SendTarget(dialog, topic_id) == [dialog |-> dialog, topic_id |-> topic_id]

Targets == { SendTarget(7, Some(5)) }

SendOutcomes == {"ok", "RPCError"}

(***************************************************************************)
(* send_text_to_target                                                     *)
(***************************************************************************)
\* Python truthiness of an Optional[int]
Truthy(topic_id) == ~IsNone(topic_id) /\ Val(topic_id) # 0

\* a send that replies to whatever topic id the target carries
send_text_replying_to_any_topic(target, text) ==
  IF Truthy(target.topic_id)
  THEN [entity |-> target.dialog, text |-> text, reply_to |-> Some(Val(target.topic_id))]
  ELSE [entity |-> target.dialog, text |-> text, reply_to |-> None]

\* the one client.send_message call send_text_to_target issues
send_text_to_target(target, text) ==
  IF Truthy(target.topic_id) /\ Val(target.topic_id) # 1
  THEN [entity |-> target.dialog, text |-> text, reply_to |-> Some(Val(target.topic_id))]
  ELSE [entity |-> target.dialog, text |-> text, reply_to |-> None]

\* SendTarget.label
Label(target) ==
  IF Truthy(target.topic_id) /\ Val(target.topic_id) # 1
  THEN <<target.dialog, Val(target.topic_id)>>
  ELSE <<target.dialog>>

(***************************************************************************)
(* State of TelegramTui                                                    *)
(***************************************************************************)
VARIABLES
  clock,           \* datetime.now(), the local clock
  time_delta_sec,  \* self.time_delta_sec
  mounted,         \* on_mount has run
  created,         \* every ScheduledJob ever constructed; a job is known by its index
  jobs,            \* self.jobs, as indices into created
  job_tasks,       \* self.job_tasks, the task of job i being task i
  tasks,           \* the asyncio.Task of each job
  status,          \* the text last given to set_status
  cleanup_pc,      \* self._cleanup_task: "none", "new", "sleeping", "finished", "cancelled"
  cleanup_cancel,  \* cancel() was called on the cleanup task
  cleanup_wake,    \* when the cleanup loop's sleep is over
  shutdown_pc,     \* on_shutdown: "idle", "gathering", "awaiting_cleanup", "returned", "raised"
  gathered,        \* the tasks handed to asyncio.gather
  \* get_all_forum_topics and the server it talks to
  forum,           \* the forum's topics, in the order the server lists them
  limit,           \* the page size
  pg_pc,           \* "idle", "running", "returned", "failed"
  offset_date,     \* the cursor
  offset_id,
  offset_topic,
  all_topics,      \* the TopicInfo collected so far
  requests,        \* GetForumTopicsRequest calls made
  pages,           \* the length of every page received
  result,          \* the list returned
  \* send_text_to_target
  dl_target,       \* its target
  dl_text,         \* its text
  dl_pc,           \* "idle", "sending", "returned", "raised"
  dl_calls,        \* the client.send_message calls made
  dl_error,        \* the exception that left send_text_to_target
  \* get_time_delta_ntp and main_async
  ntp_pc,          \* "idle", "imported", "returned", "constructed"
  ntp_requests,    \* NTPClient.request calls made
  ntp_failed,      \* the import or the request raised
  ntp_result,      \* the float returned, in seconds
  \* parse_datetime on its own
  pr_text,         \* user_text
  pr_now,          \* the local clock date.today() reads
  pr_pc,           \* "idle", "returned", "raised"
  pr_result,       \* the value returned
  \* the dialog tree: on_tree_node_expanded and action_reload
  topics_loaded,   \* self.topics_loaded
  node,            \* what each forum node shows
  expanding,       \* the forums whose on_tree_node_expanded awaits its fetch
  fetches,         \* get_all_forum_topics calls started
  reload_pc        \* action_reload: "idle", "loading"

schedVars ==
  <<clock, time_delta_sec, mounted, created, jobs, job_tasks, tasks, status,
    cleanup_pc, cleanup_cancel, cleanup_wake, shutdown_pc, gathered>>

fetchVars ==
  <<forum, limit, pg_pc, offset_date, offset_id, offset_topic, all_topics, requests,
    pages, result>>

deliverVars == <<dl_target, dl_text, dl_pc, dl_calls, dl_error>>

ntpVars == <<ntp_pc, ntp_requests, ntp_failed, ntp_result>>

parseVars == <<pr_text, pr_now, pr_pc, pr_result>>

treeVars == <<topics_loaded, node, expanding, fetches, reload_pc>>

vars == <<schedVars, fetchVars, deliverVars, ntpVars, parseVars, treeVars>>

\* what the scheduler leaves alone
outsideScheduler == <<fetchVars, deliverVars, ntpVars, parseVars, treeVars>>

\* what get_all_forum_topics leaves alone
outsideFetch == <<schedVars, deliverVars, ntpVars, parseVars, treeVars>>

\* what send_text_to_target leaves alone
outsideDeliver == <<schedVars, fetchVars, ntpVars, parseVars, treeVars>>

CLEANUP_INTERVAL == 60

Range(seq) == {seq[k] : k \in 1..Len(seq)}

\* _corrected_now()
corrected_now == clock + time_delta_sec

\* task.done()
Done(i) == tasks[i].pc \in {"done", "cancelled"}

\* on_shutdown has not returned: the application and its event loop are still there
Running == shutdown_pc # "returned"

Status(kind, label, info) == [kind |-> kind, label |-> label, info |-> info]

\* a task just made by asyncio.create_task(self._run_job(job)): its first step is pending
NewTask ==
  [pc |-> "new", cancel |-> FALSE, cancel_at |-> "none", wake |-> 0,
   calls |-> <<>>, ok_reports |-> 0, fail_reports |-> 0]

SchedInit ==
  /\ clock = StartClock
  /\ time_delta_sec \in Offsets
  /\ mounted = FALSE
  /\ created = <<>>
  /\ jobs = <<>>
  /\ job_tasks = <<>>
  /\ tasks = <<>>
  /\ status = Status("none", None, None)
  /\ cleanup_pc = "none"
  /\ cleanup_cancel = FALSE
  /\ cleanup_wake = 0
  /\ shutdown_pc = "idle"
  /\ gathered = <<>>

\* on_mount
on_mount ==
  /\ ~mounted
  /\ mounted' = TRUE
  /\ status' = Status("ready", None, Some(time_delta_sec * 1000))
  /\ cleanup_pc' = "new"
  /\ UNCHANGED <<clock, time_delta_sec, created, jobs, job_tasks, tasks,
                 cleanup_cancel, cleanup_wake, shutdown_pc, gathered>>
  /\ UNCHANGED outsideScheduler

\* the local clock advances to the end of some pending sleep
TickTargets ==
  {tasks[i].wake : i \in {k \in DOMAIN tasks : tasks[k].pc = "sleeping"}}
    \cup (IF cleanup_pc = "sleeping" THEN {cleanup_wake} ELSE {})

Tick ==
  /\ Running
  /\ \E t \in TickTargets :
       /\ t > clock
       /\ t <= StartClock + MaxIntervals * CLEANUP_INTERVAL
       /\ clock' = t
  /\ UNCHANGED <<time_delta_sec, mounted, created, jobs, job_tasks, tasks, status,
                 cleanup_pc, cleanup_cancel, cleanup_wake, shutdown_pc, gathered>>
  /\ UNCHANGED outsideScheduler

(***************************************************************************)
(* schedule_message_from_ui                                                *)
(***************************************************************************)
\* is_time_only
IsTimeOnly(when_str) ==
  Contains(when_str, ":") /\ ~Contains(when_str, " ") /\ Len(Strip(when_str)) <= 8

\* the due time of the job: the parsed time, rolled to the next day when it is a
\* time-only entry that is not in the future
DueTime(when_str, when, now) ==
  IF IsTimeOnly(when_str) /\ when <= now THEN when + SecondsPerDay ELSE when

\* the message text left after the trimming that is still there to send
MessageTextUntrimmed(text) == text

\* (text or "").strip()
MessageText(text) == Strip(text)

schedule_message_from_ui(target, when_str, text) ==
  /\ Running
  /\ mounted
  /\ LET txt == MessageText(text)
         parsed == parse_datetime(when_str, clock)
     IN  IF txt = <<>>
         THEN /\ status' = Status("empty_text", None, None)
              /\ UNCHANGED <<created, jobs, job_tasks, tasks>>
         ELSE IF IsNone(parsed)
         THEN /\ status' = Status("bad_time", None, None)
              /\ UNCHANGED <<created, jobs, job_tasks, tasks>>
         ELSE LET when == DueTime(when_str, Val(parsed), corrected_now)
                  job == [target |-> target, text |-> txt, when |-> when]
                  id == Len(created) + 1
              IN  /\ Len(created) < MaxJobs
                  /\ created' = Append(created, job)
                  /\ jobs' = Append(jobs, id)
                  /\ tasks' = Append(tasks, NewTask)
                  /\ job_tasks' = Append(job_tasks, id)
                  /\ status' = Status("scheduled", Label(target), Some(when))
  /\ UNCHANGED <<clock, time_delta_sec, mounted, cleanup_pc, cleanup_cancel,
                 cleanup_wake, shutdown_pc, gathered>>
  /\ UNCHANGED outsideScheduler

Schedule ==
  \E target \in Targets, when_str \in WhenTexts, text \in MessageTexts :
    schedule_message_from_ui(target, when_str, text)

(***************************************************************************)
(* _run_job: the steps of the task of job i                                *)
(***************************************************************************)
\* the task enters send_text_to_target and is suspended in client.send_message
CallSend(i) ==
  [tasks[i] EXCEPT !.pc = "sending",
                   !.calls = Append(@, send_text_to_target(created[i].target, created[i].text))]

\* a first step that sleeps whatever the delay is
StartJobAlwaysSleeping(i) ==
  /\ Running
  /\ i \in DOMAIN tasks
  /\ tasks[i].pc = "new"
  /\ LET delay == created[i].when - corrected_now
     IN  tasks' = [tasks EXCEPT ![i] =
           IF tasks[i].cancel THEN [@ EXCEPT !.pc = "cancelled"]
           ELSE [@ EXCEPT !.pc = "sleeping", !.wake = clock + delay]]
  /\ UNCHANGED <<clock, time_delta_sec, mounted, created, jobs, job_tasks, status,
                 cleanup_pc, cleanup_cancel, cleanup_wake, shutdown_pc, gathered>>
  /\ UNCHANGED outsideScheduler

\* the first step of the task: a cancellation requested before it throws
\* CancelledError into the coroutine that has not started; otherwise the delay is
\* computed and the task sleeps, or goes straight to the send
StartJob(i) ==
  /\ Running
  /\ i \in DOMAIN tasks
  /\ tasks[i].pc = "new"
  /\ LET delay == created[i].when - corrected_now
     IN  tasks' = [tasks EXCEPT ![i] =
           IF tasks[i].cancel THEN [@ EXCEPT !.pc = "cancelled"]
           ELSE IF delay > 0 THEN [@ EXCEPT !.pc = "sleeping", !.wake = clock + delay]
           ELSE CallSend(i)]
  /\ UNCHANGED <<clock, time_delta_sec, mounted, created, jobs, job_tasks, status,
                 cleanup_pc, cleanup_cancel, cleanup_wake, shutdown_pc, gathered>>
  /\ UNCHANGED outsideScheduler

\* a sleep that is over before its time
TimerFireEarly(i) ==
  /\ Running
  /\ i \in DOMAIN tasks
  /\ tasks[i].pc = "sleeping"
  /\ ~tasks[i].cancel
  /\ tasks' = [tasks EXCEPT ![i].pc = "woken"]
  /\ UNCHANGED <<clock, time_delta_sec, mounted, created, jobs, job_tasks, status,
                 cleanup_pc, cleanup_cancel, cleanup_wake, shutdown_pc, gathered>>
  /\ UNCHANGED outsideScheduler

\* the timer of asyncio.sleep(delay) fires: the sleep's future gets its result and
\* the task is queued to resume
TimerFire(i) ==
  /\ Running
  /\ i \in DOMAIN tasks
  /\ tasks[i].pc = "sleeping"
  /\ ~tasks[i].cancel
  /\ clock >= tasks[i].wake
  /\ tasks' = [tasks EXCEPT ![i].pc = "woken"]
  /\ UNCHANGED <<clock, time_delta_sec, mounted, created, jobs, job_tasks, status,
                 cleanup_pc, cleanup_cancel, cleanup_wake, shutdown_pc, gathered>>
  /\ UNCHANGED outsideScheduler

\* a resume that loses a cancellation which arrived after the timer had fired
ResumeLosingLateCancel(i) ==
  /\ Running
  /\ i \in DOMAIN tasks
  /\ \/ tasks[i].pc = "woken"
     \/ tasks[i].pc = "sleeping" /\ tasks[i].cancel
  /\ tasks' = [tasks EXCEPT ![i] =
       IF tasks[i].pc = "sleeping" THEN [@ EXCEPT !.pc = "done"] ELSE CallSend(i)]
  /\ UNCHANGED <<clock, time_delta_sec, mounted, created, jobs, job_tasks, status,
                 cleanup_pc, cleanup_cancel, cleanup_wake, shutdown_pc, gathered>>
  /\ UNCHANGED outsideScheduler

\* the task resumes at `await asyncio.sleep(delay)`: with a cancellation requested
\* (before or after the timer fired) CancelledError is raised there and the
\* coroutine returns; otherwise the sleep is over and the send is called
Resume(i) ==
  /\ Running
  /\ i \in DOMAIN tasks
  /\ \/ tasks[i].pc = "woken"
     \/ tasks[i].pc = "sleeping" /\ tasks[i].cancel
  /\ tasks' = [tasks EXCEPT ![i] =
       IF tasks[i].cancel THEN [@ EXCEPT !.pc = "done"] ELSE CallSend(i)]
  /\ UNCHANGED <<clock, time_delta_sec, mounted, created, jobs, job_tasks, status,
                 cleanup_pc, cleanup_cancel, cleanup_wake, shutdown_pc, gathered>>
  /\ UNCHANGED outsideScheduler

\* a unit that starts over after a failed send
AfterSendRetrying(i, outcome) ==
  IF outcome = "ok"
  THEN [tasks[i] EXCEPT !.pc = "done", !.ok_reports = @ + 1]
  ELSE [tasks[i] EXCEPT !.pc = "new", !.fail_reports = @ + 1]

\* what the task does when client.send_message is over with `outcome`
AfterSend(i, outcome) ==
  IF outcome = "ok"
  THEN [tasks[i] EXCEPT !.pc = "done", !.ok_reports = @ + 1]
  ELSE [tasks[i] EXCEPT !.pc = "done", !.fail_reports = @ + 1]

\* client.send_message returns or raises an Exception
SendComplete(i, outcome) ==
  /\ Running
  /\ i \in DOMAIN tasks
  /\ tasks[i].pc = "sending"
  /\ ~tasks[i].cancel
  /\ tasks' = [tasks EXCEPT ![i] = AfterSend(i, outcome)]
  /\ status' = IF outcome = "ok"
               THEN Status("sent", Label(created[i].target), None)
               ELSE Status("send_error", Label(created[i].target), Some(outcome))
  /\ UNCHANGED <<clock, time_delta_sec, mounted, created, jobs, job_tasks,
                 cleanup_pc, cleanup_cancel, cleanup_wake, shutdown_pc, gathered>>
  /\ UNCHANGED outsideScheduler

\* the task was cancelled inside client.send_message: CancelledError is no
\* Exception, so it leaves _run_job and the task ends cancelled
SendCancelled(i) ==
  /\ Running
  /\ i \in DOMAIN tasks
  /\ tasks[i].pc = "sending"
  /\ tasks[i].cancel
  /\ tasks' = [tasks EXCEPT ![i].pc = "cancelled"]
  /\ UNCHANGED <<clock, time_delta_sec, mounted, created, jobs, job_tasks, status,
                 cleanup_pc, cleanup_cancel, cleanup_wake, shutdown_pc, gathered>>
  /\ UNCHANGED outsideScheduler

(***************************************************************************)
(* _cleanup_loop                                                           *)
(***************************************************************************)
\* the first step of the cleanup task, up to `await asyncio.sleep(CLEANUP_INTERVAL)`
CleanupStart ==
  /\ Running
  /\ cleanup_pc = "new"
  /\ IF cleanup_cancel
     THEN cleanup_pc' = "cancelled" /\ UNCHANGED cleanup_wake
     ELSE cleanup_pc' = "sleeping" /\ cleanup_wake' = clock + CLEANUP_INTERVAL
  /\ UNCHANGED <<clock, time_delta_sec, mounted, created, jobs, job_tasks, tasks,
                 status, cleanup_cancel, shutdown_pc, gathered>>
  /\ UNCHANGED outsideScheduler

\* an `await task` that lets the failure of a unit's send out into the sweep
AwaitDoneRaisingFailure(i) ==
  IF tasks[i].pc = "cancelled" \/ tasks[i].fail_reports > 0
  THEN "CancelledError" ELSE "returns"

\* `await task` on a finished task: "returns", or the exception it raises.  A task
\* that ended cancelled raises CancelledError, which `except Exception` lets through.
AwaitDone(i) == IF tasks[i].pc = "cancelled" THEN "CancelledError" ELSE "returns"

\* the loop over self.job_tasks raises CancelledError at the first finished task
\* whose `await` raises it
SweepRaises ==
  \E k \in 1..Len(job_tasks) :
    Done(job_tasks[k]) /\ AwaitDone(job_tasks[k]) = "CancelledError"

\* a list that keeps only the units found asleep
ActiveTasksAsleep == SelectSeq(job_tasks, LAMBDA i : tasks[i].pc = "sleeping")

\* active_tasks
ActiveTasks == SelectSeq(job_tasks, LAMBDA i : ~Done(i))

\* a filter that keeps every job
UnexpiredJobsKeepingAll(now) == jobs

\* [j for j in self.jobs if j.when > now]
UnexpiredJobs(now) == SelectSeq(jobs, LAMBDA i : created[i].when > now)

\* one pass of the loop body after the sleep is over.  Awaiting a finished task
\* does not suspend, so the pass is one step.  A CancelledError raised by
\* `await task` leaves the while loop and is caught by the outer handler, which
\* returns: the loop is over and neither list has been assigned.
CleanupSweep ==
  /\ Running
  /\ cleanup_pc = "sleeping"
  /\ ~cleanup_cancel
  /\ clock >= cleanup_wake
  /\ IF SweepRaises
     THEN /\ cleanup_pc' = "finished"
          /\ UNCHANGED <<job_tasks, jobs, cleanup_wake>>
     ELSE /\ job_tasks' = ActiveTasks
          /\ jobs' = UnexpiredJobs(corrected_now)
          /\ cleanup_wake' = clock + CLEANUP_INTERVAL
          /\ UNCHANGED cleanup_pc
  /\ UNCHANGED <<clock, time_delta_sec, mounted, created, tasks, status,
                 cleanup_cancel, shutdown_pc, gathered>>
  /\ UNCHANGED outsideScheduler

\* the cleanup task is cancelled in its sleep: `except asyncio.CancelledError: return`
CleanupCancelled ==
  /\ Running
  /\ cleanup_pc = "sleeping"
  /\ cleanup_cancel
  /\ cleanup_pc' = "finished"
  /\ UNCHANGED <<clock, time_delta_sec, mounted, created, jobs, job_tasks, tasks,
                 status, cleanup_cancel, cleanup_wake, shutdown_pc, gathered>>
  /\ UNCHANGED outsideScheduler

CleanupDone == cleanup_pc \in {"finished", "cancelled"}

(***************************************************************************)
(* on_shutdown                                                             *)
(***************************************************************************)
\* task.cancel() on every task of self.job_tasks that is not done
CancelAll ==
  [i \in DOMAIN tasks |->
     IF i \in Range(job_tasks) /\ ~Done(i)
     THEN [tasks[i] EXCEPT !.cancel = TRUE, !.cancel_at = tasks[i].pc]
     ELSE tasks[i]]

\* asyncio.gather(*ids) without return_exceptions: the first task that ends
\* cancelled makes the gather raise at once
GatherFailFast(ids) ==
  IF \E k \in 1..Len(ids) : tasks[ids[k]].pc = "cancelled" THEN "raised"
  ELSE IF \A k \in 1..Len(ids) : Done(ids[k]) THEN "result"
  ELSE "pending"

\* asyncio.gather(*ids, return_exceptions=True): "pending" until every task is
\* done, then "result"; exceptions and cancellations of the tasks become entries
\* of the result list
Gather(ids) ==
  IF \A k \in 1..Len(ids) : Done(ids[k]) THEN "result" ELSE "pending"

\* self._cleanup_task.cancel(), which does nothing to a finished task
CancelCleanup == cleanup_cancel \/ (cleanup_pc # "none" /\ ~CleanupDone)

\* on_shutdown up to its first await
on_shutdown ==
  /\ mounted
  /\ shutdown_pc = "idle"
  /\ tasks' = CancelAll
  /\ IF job_tasks # <<>>
     THEN /\ shutdown_pc' = "gathering"
          /\ gathered' = job_tasks
          /\ UNCHANGED cleanup_cancel
     ELSE /\ shutdown_pc' = "awaiting_cleanup"
          /\ cleanup_cancel' = CancelCleanup
          /\ UNCHANGED gathered
  /\ UNCHANGED <<clock, time_delta_sec, mounted, created, jobs, job_tasks, status,
                 cleanup_pc, cleanup_wake>>
  /\ UNCHANGED outsideScheduler

\* the gather is over: on_shutdown goes on to cancel the cleanup task and await it
GatherDone ==
  /\ shutdown_pc = "gathering"
  /\ Gather(gathered) # "pending"
  /\ IF Gather(gathered) = "result"
     THEN shutdown_pc' = "awaiting_cleanup" /\ cleanup_cancel' = CancelCleanup
     ELSE shutdown_pc' = "raised" /\ UNCHANGED cleanup_cancel
  /\ UNCHANGED <<clock, time_delta_sec, mounted, created, jobs, job_tasks, tasks,
                 status, cleanup_pc, cleanup_wake, gathered>>
  /\ UNCHANGED outsideScheduler

\* `await self._cleanup_task` is over; a CancelledError it raises is swallowed
ShutdownReturn ==
  /\ shutdown_pc = "awaiting_cleanup"
  /\ CleanupDone
  /\ shutdown_pc' = "returned"
  /\ UNCHANGED <<clock, time_delta_sec, mounted, created, jobs, job_tasks, tasks,
                 status, cleanup_pc, cleanup_cancel, cleanup_wake, gathered>>
  /\ UNCHANGED outsideScheduler

(***************************************************************************)
(* The scheduler                                                           *)
(***************************************************************************)
Next ==
  \/ on_mount
  \/ Tick
  \/ Schedule
  \/ \E i \in DOMAIN tasks : StartJob(i)
  \/ \E i \in DOMAIN tasks : TimerFire(i)
  \/ \E i \in DOMAIN tasks : Resume(i)
  \/ \E i \in DOMAIN tasks, outcome \in SendOutcomes : SendComplete(i, outcome)
  \/ \E i \in DOMAIN tasks : SendCancelled(i)
  \/ CleanupStart
  \/ CleanupSweep
  \/ CleanupCancelled
  \/ on_shutdown
  \/ GatherDone
  \/ ShutdownReturn


(***************************************************************************)
(* Properties of the scheduler                                             *)
(***************************************************************************)
Waiting == {"new", "sleeping", "woken"}

\* C1: a unit cancelled while it waits for its due time (not yet started, asleep,
\* or woken by the timer but not yet resumed) issues no delivery call and reports
\* no delivery status, and it terminates: its only pending step ends it.
C1_CancelledWhileWaiting ==
  \A i \in DOMAIN tasks :
    tasks[i].cancel_at \in Waiting =>
      /\ tasks[i].calls = <<>>
      /\ tasks[i].ok_reports = 0
      /\ tasks[i].fail_reports = 0
      /\ tasks[i].pc \in {tasks[i].cancel_at, "done", "cancelled"}
      /\ ~Done(i) => ENABLED (StartJob(i) \/ Resume(i))

\* a unit cancelled after its timer had fired has terminated
C1_Witness ==
  \E i \in DOMAIN tasks :
    tasks[i].cancel_at = "woken" /\ Done(i) /\ tasks[i].calls = <<>>

\* C2: on_shutdown requests the cancellation of every unit of the live set that is
\* not finished, gets past the gather only when every gathered unit is finished,
\* and nothing a unit raises leaves it.
C2_ShutdownWaitsForAll ==
  /\ shutdown_pc # "raised"
  /\ shutdown_pc = "gathering" =>
       \A i \in Range(gathered) : Done(i) \/ tasks[i].cancel
  /\ shutdown_pc \in {"awaiting_cleanup", "returned"} =>
       \A i \in Range(gathered) : Done(i)

\* shutdown has returned from a live set that mixed a unit that had finished on
\* its own with one that ended cancelled
C2_Witness ==
  /\ shutdown_pc = "returned"
  /\ \E i, j \in Range(gathered) :
       /\ tasks[i].pc = "cancelled"
       /\ tasks[j].pc = "done" /\ ~tasks[j].cancel

\* C3: no job gets a second delivery call; a unit that is through with its send
\* has reported exactly one status, a success or a failure, and has ended.
C3_AtMostOneDelivery ==
  \A i \in DOMAIN tasks :
    /\ Len(tasks[i].calls) <= 1
    /\ tasks[i].ok_reports + tasks[i].fail_reports <= 1
    /\ tasks[i].ok_reports + tasks[i].fail_reports = 1 =>
         tasks[i].pc = "done" /\ Len(tasks[i].calls) = 1
    /\ (tasks[i].pc = "done" /\ tasks[i].calls # <<>>) =>
         tasks[i].ok_reports + tasks[i].fail_reports = 1

\* one job has failed and was dropped, another has been delivered
C3_Witness ==
  \E i, j \in DOMAIN tasks :
    /\ tasks[i].fail_reports = 1 /\ tasks[i].pc = "done"
    /\ tasks[j].ok_reports = 1

\* C4: whenever a unit issues its delivery call, the corrected clock has reached
\* the job's due time.
C4_NoDeliveryBeforeDue ==
  [][\A i \in DOMAIN tasks :
       Len(tasks'[i].calls) > Len(tasks[i].calls) => corrected_now >= created[i].when]_vars

\* a unit that slept has issued its call while another job was scheduled
C4_Witness ==
  \E i \in DOMAIN tasks :
    /\ tasks[i].calls # <<>>
    /\ tasks[i].wake > StartClock
    /\ Len(created) > 1

\* C5: every pass of the cleanup loop leaves in self.jobs exactly the jobs that
\* were in it and whose due time is strictly after corrected-now.
C5_SweepKeepsExactlyUnexpired ==
  [][CleanupSweep => jobs' = UnexpiredJobs(corrected_now)]_vars

\* C6: a pass of the cleanup loop never ends the loop: after it the loop sleeps
\* for the next interval.
C6_SweepLoopGoesOn ==
  [][CleanupSweep => cleanup_pc' = "sleeping" /\ cleanup_wake' = clock + CLEANUP_INTERVAL]_vars

\* C10: a schedule call whose message text is empty after trimming, or whose time
\* text no grammar parses, reports a validation status and leaves the jobs, the
\* tasks and both lists as they were: every step either does just that, or is no
\* schedule call with such an input.
C10_InvalidScheduleChangesNothing ==
  [][\/ /\ status'.kind \in {"empty_text", "bad_time"}
        /\ UNCHANGED <<created, tasks, jobs, job_tasks>>
     \/ \A target \in Targets, when_str \in WhenTexts, text \in MessageTexts :
          (Strip(text) = <<>> \/ IsNone(parse_datetime(when_str, clock)))
            => ~schedule_message_from_ui(target, when_str, text)]_vars

\* a rejected time text has been reported while a job was pending
C10_Witness ==
  status.kind = "bad_time" /\ jobs # <<>>
(***************************************************************************)
(* get_all_forum_topics                                                    *)
(***************************************************************************)
MaxTopics == 3
MaxLimit == 2

\* str.lower() and the order of str, on the letters the titles are made of
Lower(c) == CASE c = "A" -> "a" [] c = "B" -> "b" [] OTHER -> c

Code(c) == CASE c = "A" -> 65 [] c = "B" -> 66 [] c = "a" -> 97 [] c = "b" -> 98

LowerText(t) == [k \in 1..Len(t) |-> Lower(t[k])]

RECURSIVE TextLess(_, _)
TextLess(s, t) ==
  IF t = <<>> THEN FALSE
  ELSE IF s = <<>> THEN TRUE
  ELSE IF Code(Head(s)) # Code(Head(t)) THEN Code(Head(s)) < Code(Head(t))
  ELSE TextLess(Tail(s), Tail(t))

\* the titles a topic may come with: no title at all, an empty one, or a text
Titles == {None, Some(<<>>), Some(<<"a">>), Some(<<"B">>), Some(<<"b">>)}

\* the topic the server lists at position k; the message list of a page holds the
\* top message of the topics with an even id only
ServerTopic(k, title, pinned) ==
  [id |-> k, title |-> title, pinned |-> pinned, top_message |-> 100 + k]

HasMessage(t) == t.id % 2 = 0

MessageDate(t) == 1000 + t.id

Forums ==
  UNION { { [k \in 1..n |-> ServerTopic(k, f[k][1], f[k][2])] :
            f \in [1..n -> Titles \X BOOLEAN] } : n \in 0..MaxTopics }

Min(a, b) == IF a < b THEN a ELSE b

\* client(GetForumTopicsRequest(...)) on a server that honours the cursor: the page
\* holds the topics listed after the topic named by offset_topic (from the start
\* when there is none), at most lim of them, and the messages that go with them
GetForumTopicsRequest(date, id, topic, lim) ==
  LET at == {k \in 1..Len(forum) : forum[k].id = topic}
      pos == IF at = {} THEN 0 ELSE CHOOSE k \in at : TRUE
      page == SubSeq(forum, pos + 1, Min(pos + lim, Len(forum)))
  IN  [topics |-> page,
       messages |-> [k \in 1..Len(SelectSeq(page, HasMessage)) |->
                       [id |-> SelectSeq(page, HasMessage)[k].top_message,
                        date |-> MessageDate(SelectSeq(page, HasMessage)[k])]]]

\* `if not title: continue`
HasTitle(t) == ~IsNone(t.title) /\ Val(t.title) # <<>>

\* the TopicInfo made of the topics of a page that have a title (unread_count and
\* closed are carried along unread and are left out)
TopicInfos(page) ==
  LET titled == SelectSeq(page, HasTitle)
  IN  [k \in 1..Len(titled) |->
         [id |-> titled[k].id, title |-> Val(titled[k].title), pinned |-> titled[k].pinned]]

\* a sort that compares the titles as they are
SortTitleAsIs(t) == t.title

\* x.title.lower()
SortTitle(t) == LowerText(t.title)

\* key(a) < key(b) for key = (not x.pinned, x.title.lower())
KeyLess(a, b) ==
  \/ a.pinned /\ ~b.pinned
  \/ a.pinned = b.pinned /\ TextLess(SortTitle(a), SortTitle(b))

\* list.sort is stable: x goes in front of the first element with a greater key
RECURSIVE InsertSorted(_, _)
InsertSorted(sorted, x) ==
  IF sorted = <<>> THEN <<x>>
  ELSE IF KeyLess(x, Head(sorted)) THEN <<x>> \o sorted
  ELSE <<Head(sorted)>> \o InsertSorted(Tail(sorted), x)

RECURSIVE SortTopics(_)
SortTopics(seq) ==
  IF seq = <<>> THEN <<>>
  ELSE InsertSorted(SortTopics(SubSeq(seq, 1, Len(seq) - 1)), seq[Len(seq)])

\* a loop that also stops after a full page
LastPageOrFull(page, lim) == Len(page) <= lim

\* `if len(topics) < limit: break`
LastPage(page, lim) == Len(page) < lim

\* the last topic of the page that has a title
LastTopicWithTitle(topics) ==
  IF SelectSeq(topics, HasTitle) = <<>> THEN topics[Len(topics)]
  ELSE SelectSeq(topics, HasTitle)[Len(SelectSeq(topics, HasTitle))]

\* topics[-1]
LastTopic(topics) == topics[Len(topics)]

\* the date of the first message whose id is offset_id, None when there is none
LastMsgDate(messages, id) ==
  LET hit == SelectSeq(messages, LAMBDA m : m.id = id)
  IN  IF hit = <<>> THEN None ELSE Some(Head(hit).date)

FetchIdle ==
  /\ forum = <<>>
  /\ limit = 1
  /\ pg_pc = "idle"
  /\ offset_date = None
  /\ offset_id = 0
  /\ offset_topic = 0
  /\ all_topics = <<>>
  /\ requests = 0
  /\ pages = <<>>
  /\ result = <<>>

FetchInit ==
  /\ forum \in Forums
  /\ limit \in 1..MaxLimit
  /\ pg_pc = "idle"
  /\ offset_date = None
  /\ offset_id = 0
  /\ offset_topic = 0
  /\ all_topics = <<>>
  /\ requests = 0
  /\ pages = <<>>
  /\ result = <<>>

\* get_all_forum_topics is called: the empty list and the starting cursor
FetchStart ==
  /\ pg_pc = "idle"
  /\ pg_pc' = "running"
  /\ all_topics' = <<>>
  /\ offset_date' = None
  /\ offset_id' = 0
  /\ offset_topic' = 0
  /\ UNCHANGED <<forum, limit, requests, pages, result>>
  /\ UNCHANGED outsideFetch

\* one round of the loop: a page is requested and dealt with
FetchPage ==
  /\ pg_pc = "running"
  /\ LET res == GetForumTopicsRequest(offset_date, offset_id, offset_topic, limit)
         topics == res.topics
         collected == all_topics \o TopicInfos(topics)
         last == LastTopic(topics)
     IN  /\ requests' = requests + 1
         /\ pages' = Append(pages, Len(topics))
         /\ IF topics = <<>>
            THEN /\ pg_pc' = "returned"
                 /\ result' = SortTopics(all_topics)
                 /\ UNCHANGED <<all_topics, offset_date, offset_id, offset_topic>>
            ELSE IF LastPage(topics, limit)
            THEN /\ pg_pc' = "returned"
                 /\ all_topics' = collected
                 /\ result' = SortTopics(collected)
                 /\ UNCHANGED <<offset_date, offset_id, offset_topic>>
            ELSE /\ all_topics' = collected
                 /\ offset_topic' = last.id
                 /\ offset_id' = last.top_message
                 /\ offset_date' = LastMsgDate(res.messages, last.top_message)
                 /\ UNCHANGED <<pg_pc, result>>
  /\ UNCHANGED <<forum, limit>>
  /\ UNCHANGED outsideFetch

\* the request raises: the error leaves get_all_forum_topics, nothing is returned
FetchFail ==
  /\ pg_pc = "running"
  /\ pg_pc' = "failed"
  /\ requests' = requests + 1
  /\ UNCHANGED <<forum, limit, offset_date, offset_id, offset_topic, all_topics, pages,
                 result>>
  /\ UNCHANGED outsideFetch

FetchNext == FetchStart \/ FetchPage \/ FetchFail

(***************************************************************************)
(* send_text_to_target on its own                                          *)
(***************************************************************************)
MaxTopicId == 3

Dialogs == {7, 8, 9}

\* the targets on_tree_node_highlighted can build: a dialog, or a dialog with the
\* id of one of its topics
DeliverTargets ==
  {SendTarget(d, t) : d \in Dialogs, t \in {None} \cup {Some(k) : k \in 1..MaxTopicId}}

DeliverTexts == { <<"h", "i">>, <<"y", "o">> }

\* what client.send_message may do: return, or raise one of these
ClientOutcomes == {"ok", "RPCError", "ConnectionError"}

DeliverIdle ==
  /\ dl_target = SendTarget(7, None)
  /\ dl_text = <<>>
  /\ dl_pc = "idle"
  /\ dl_calls = <<>>
  /\ dl_error = None

DeliverInit ==
  /\ dl_target \in DeliverTargets
  /\ dl_text \in DeliverTexts
  /\ dl_pc = "idle"
  /\ dl_calls = <<>>
  /\ dl_error = None

\* send_text_to_target up to its await: the client is called
DeliverCall ==
  /\ dl_pc = "idle"
  /\ dl_pc' = "sending"
  /\ dl_calls' = Append(dl_calls, [call |-> send_text_to_target(dl_target, dl_text),
                                   outcome |-> "pending"])
  /\ UNCHANGED <<dl_target, dl_text, dl_error>>
  /\ UNCHANGED outsideDeliver

\* the awaited call is over: its result is dropped, its exception is not caught
DeliverDone(outcome) ==
  /\ dl_pc = "sending"
  /\ dl_calls' = [dl_calls EXCEPT ![Len(dl_calls)].outcome = outcome]
  /\ IF outcome = "ok"
     THEN dl_pc' = "returned" /\ UNCHANGED dl_error
     ELSE dl_pc' = "raised" /\ dl_error' = Some(outcome)
  /\ UNCHANGED <<dl_target, dl_text>>
  /\ UNCHANGED outsideDeliver

DeliverNext ==
  \/ DeliverCall
  \/ \E outcome \in ClientOutcomes : DeliverDone(outcome)

(***************************************************************************)
(* get_time_delta_ntp and the start of main_async                          *)
(***************************************************************************)
\* `import ntplib` succeeds, or raises
ImportOutcomes == {"ok", "absent"}

\* what asyncio.to_thread(_sync) does: it returns the difference computed from the
\* reply, or raises because the host cannot be reached or the 3 s timeout is over
RequestOutcomes == {"reply", "unreachable", "timeout"}

\* nothing of get_time_delta_ntp has run
NtpInit ==
  /\ ntp_pc = "idle"
  /\ ntp_requests = 0
  /\ ntp_failed = FALSE
  /\ ntp_result = 0

\* main_async has built TelegramTui with the offset a reply gave
NtpConstructed ==
  /\ ntp_pc = "constructed"
  /\ ntp_requests = 1
  /\ ntp_failed = FALSE
  /\ ntp_result = time_delta_sec

\* the first try block: `import ntplib`, `except Exception: return 0.0`
NtpImport(outcome) ==
  /\ ntp_pc = "idle"
  /\ IF outcome = "ok"
     THEN ntp_pc' = "imported" /\ UNCHANGED <<ntp_failed, ntp_result>>
     ELSE ntp_pc' = "returned" /\ ntp_failed' = TRUE /\ ntp_result' = 0
  /\ UNCHANGED ntp_requests
  /\ UNCHANGED <<schedVars, fetchVars, deliverVars, parseVars, treeVars>>

\* a function that asks again after a failed request
AfterRequestRetrying(outcome) == IF outcome = "reply" THEN "returned" ELSE "imported"

\* where get_time_delta_ntp is after its request: it has returned, whatever came
AfterRequest(outcome) == "returned"

\* the second try block: one NTPClient.request in a thread, `except Exception:
\* return 0.0`
NtpRequest(outcome, delta) ==
  /\ ntp_pc = "imported"
  /\ ntp_requests' = ntp_requests + 1
  /\ ntp_pc' = AfterRequest(outcome)
  /\ IF outcome = "reply"
     THEN ntp_result' = delta /\ UNCHANGED ntp_failed
     ELSE ntp_result' = 0 /\ ntp_failed' = TRUE
  /\ UNCHANGED <<schedVars, fetchVars, deliverVars, parseVars, treeVars>>

\* main_async: TelegramTui(client, dialogs, time_delta_sec)
Construct ==
  /\ ntp_pc = "returned"
  /\ ntp_pc' = "constructed"
  /\ time_delta_sec' = ntp_result
  /\ UNCHANGED <<ntp_requests, ntp_failed, ntp_result>>
  /\ UNCHANGED <<clock, mounted, created, jobs, job_tasks, tasks, status, cleanup_pc,
                 cleanup_cancel, cleanup_wake, shutdown_pc, gathered>>
  /\ UNCHANGED <<fetchVars, deliverVars, parseVars, treeVars>>

\* the application exists: its handlers may run
Constructed == ntp_pc = "constructed"

StartupNext ==
  \/ \E outcome \in ImportOutcomes : NtpImport(outcome)
  \/ \E outcome \in RequestOutcomes, delta \in Offsets : NtpRequest(outcome, delta)
  \/ Construct
  \/ Constructed /\ Next

(***************************************************************************)
(* parse_datetime on its own                                               *)
(***************************************************************************)
DigitChar(d) ==
  CASE d = 0 -> "0" [] d = 1 -> "1" [] d = 2 -> "2" [] d = 3 -> "3" [] d = 4 -> "4"
    [] d = 5 -> "5" [] d = 6 -> "6" [] d = 7 -> "7" [] d = 8 -> "8" [] d = 9 -> "9"

\* "%02d" % n and "%04d" % n
TwoDigits(n) == <<DigitChar(n \div 10), DigitChar(n % 10)>>

FourDigits(n) == TwoDigits(n \div 100) \o TwoDigits(n % 100)

\* the texts of the four grammars
ClockText(hh, mm) == TwoDigits(hh) \o <<":">> \o TwoDigits(mm)

ClockSecText(hh, mm, ss) == ClockText(hh, mm) \o <<":">> \o TwoDigits(ss)

YmdText(y, m, d, hh, mm) ==
  FourDigits(y) \o <<"-">> \o TwoDigits(m) \o <<"-">> \o TwoDigits(d) \o <<" ">>
    \o ClockText(hh, mm)

DmyText(y, m, d, hh, mm) ==
  TwoDigits(d) \o <<".">> \o TwoDigits(m) \o <<".">> \o FourDigits(y) \o <<" ">>
    \o ClockText(hh, mm)

\* the hours and minutes tried: every one in range, and the first out of range
MaxHour == 24
MaxMinute == 60

\* the dates and times of day the dated texts are made of
ParseYears == {2024, 2030}
ParseMonths == {1, 2, 12, 13}
ParseDays == {1, 15, 29, 30, 31, 32}
ParseHours == {0, 9, 23, 24}
ParseMinutes == {0, 30, 59, 60}

\* the days date.today() is read on, as <<year, month, day, hour, minute, second>>
ParseTodays == { <<2024, 1, 1, 10, 0, 0>>, <<2024, 2, 29, 23, 59, 30>> }

ParseTexts ==
  {ClockText(hh, mm) : hh \in 0..MaxHour, mm \in 0..MaxMinute}
    \cup {ClockSecText(hh, mm, ss) : hh \in {9, 24}, mm \in {30, 60}, ss \in {0, 59, 60}}
    \cup {YmdText(y, m, d, hh, mm) :
            y \in ParseYears, m \in ParseMonths, d \in ParseDays,
            hh \in ParseHours, mm \in ParseMinutes}
    \cup {DmyText(y, m, d, hh, mm) :
            y \in ParseYears, m \in ParseMonths, d \in ParseDays,
            hh \in ParseHours, mm \in ParseMinutes}
    \cup { <<"s", "o", "o", "n">>, <<>>, <<":">>, <<"1", ":", "2", ":", "3", ":", "4">>,
           <<" ", "0", "9", ":", "3", "0", " ">> }

ParseIdle ==
  /\ pr_text = <<>>
  /\ pr_now = StartClock
  /\ pr_pc = "idle"
  /\ pr_result = None

ParseInit ==
  /\ pr_text \in ParseTexts
  /\ pr_now \in {Val(MakeDateTime(t[1], t[2], t[3], t[4], t[5], t[6])) : t \in ParseTodays}
  /\ pr_pc = "idle"
  /\ pr_result = None

\* parse_datetime(pr_text): every exception of the time-only branch is swallowed by
\* `except Exception: pass`, the ValueError of strptime by `except ValueError`, so
\* the call returns
ParseCall ==
  /\ pr_pc = "idle"
  /\ pr_pc' = "returned"
  /\ pr_result' = parse_datetime(pr_text, pr_now)
  /\ UNCHANGED <<pr_text, pr_now>>
  /\ UNCHANGED <<schedVars, fetchVars, deliverVars, ntpVars, treeVars>>

ParseNext == ParseCall

(***************************************************************************)
(* The dialog tree: on_tree_node_expanded and action_reload                *)
(***************************************************************************)
\* the ids of the dialogs that are forum groups
ForumIds == {1, 2}

\* get_all_forum_topics calls one forum may get
MaxFetches == 2

\* what `await get_all_forum_topics(...)` does: it raises, or returns a list
FetchOutcomes == {"raises", "no_topics", "topics"}

\* what `await load_dialogs(...)` does
LoadOutcomes == {"returns", "raises"}

\* the tree build_tree makes: every forum node is there, with no children
BuiltTree == [f \in ForumIds |-> "bare"]

TreeIdle ==
  /\ topics_loaded = {}
  /\ node = BuiltTree
  /\ expanding = <<>>
  /\ fetches = [f \in ForumIds |-> 0]
  /\ reload_pc = "idle"

\* the seq without its k-th element
RemoveAt(seq, k) == SubSeq(seq, 1, k - 1) \o SubSeq(seq, k + 1, Len(seq))

\* on_tree_node_expanded for the node of forum f, up to its await.  With f in
\* topics_loaded the handler returns at once and nothing changes.
Expand(f) ==
  /\ mounted
  /\ f \notin topics_loaded
  /\ fetches[f] < MaxFetches
  /\ topics_loaded' = topics_loaded \cup {f}
  /\ node' = [node EXCEPT ![f] = "loading"]
  /\ expanding' = Append(expanding, [forum |-> f, attached |-> TRUE])
  /\ fetches' = [fetches EXCEPT ![f] = @ + 1]
  /\ UNCHANGED reload_pc
  /\ UNCHANGED <<schedVars, fetchVars, deliverVars, ntpVars, parseVars>>

\* what the node shows once the fetch is over
Shown(outcome) ==
  CASE outcome = "raises" -> "error"
    [] outcome = "no_topics" -> "empty"
    [] outcome = "topics" -> "topics"

\* the rest of on_tree_node_expanded once the fetch of expanding[k] is over; a node
\* of a tree that was rebuilt meanwhile is no longer shown
ExpandDone(k, outcome) ==
  /\ k \in DOMAIN expanding
  /\ node' = IF expanding[k].attached
             THEN [node EXCEPT ![expanding[k].forum] = Shown(outcome)]
             ELSE node
  /\ expanding' = RemoveAt(expanding, k)
  /\ UNCHANGED <<topics_loaded, fetches, reload_pc>>
  /\ UNCHANGED <<schedVars, fetchVars, deliverVars, ntpVars, parseVars>>

\* action_reload up to `await load_dialogs(self.client)`
ReloadStart ==
  /\ mounted
  /\ reload_pc = "idle"
  /\ reload_pc' = "loading"
  /\ topics_loaded' = {}
  /\ UNCHANGED <<node, expanding, fetches>>
  /\ UNCHANGED <<schedVars, fetchVars, deliverVars, ntpVars, parseVars>>

\* the rest of action_reload: build_tree and set_status, or the exception of
\* load_dialogs leaves the handler
ReloadDone(outcome) ==
  /\ reload_pc = "loading"
  /\ reload_pc' = "idle"
  /\ IF outcome = "returns"
     THEN /\ node' = BuiltTree
          /\ expanding' = [k \in DOMAIN expanding |-> [expanding[k] EXCEPT !.attached = FALSE]]
          /\ status' = Status("reloaded", None, None)
     ELSE UNCHANGED <<node, expanding, status>>
  /\ UNCHANGED <<topics_loaded, fetches>>
  /\ UNCHANGED <<clock, time_delta_sec, mounted, created, jobs, job_tasks, tasks,
                 cleanup_pc, cleanup_cancel, cleanup_wake, shutdown_pc, gathered>>
  /\ UNCHANGED <<fetchVars, deliverVars, ntpVars, parseVars>>

TreeNext ==
  \/ on_mount
  \/ \E f \in ForumIds : Expand(f)
  \/ \E k \in DOMAIN expanding, outcome \in FetchOutcomes : ExpandDone(k, outcome)
  \/ ReloadStart
  \/ \E outcome \in LoadOutcomes : ReloadDone(outcome)

(***************************************************************************)
(* schedule_message_from_ui over many clocks, offsets and time texts       *)
(***************************************************************************)
\* the local clock when the application is constructed: mid-morning, and half a
\* minute before midnight
EntryClocks == { <<2024, 1, 1, 10, 0, 0>>, <<2024, 1, 1, 23, 59, 30>> }

\* the offsets get_time_delta_ntp may have returned: none, ahead, behind
EntryOffsets == {0, 45, 0 - 45}

EntryTexts ==
  { ClockText(9, 0), ClockText(10, 0), ClockText(11, 0), ClockText(0, 0),
    ClockSecText(9, 59, 30), ClockSecText(23, 59, 59),
    ClockText(9, 0) \o <<" ">>,
    YmdText(2024, 1, 1, 9, 30), DmyText(2024, 1, 1, 11, 30), YmdText(2024, 1, 2, 0, 30) }

EntryInit ==
  /\ clock \in {Val(MakeDateTime(t[1], t[2], t[3], t[4], t[5], t[6])) : t \in EntryClocks}
  /\ time_delta_sec \in EntryOffsets
  /\ mounted = FALSE
  /\ created = <<>>
  /\ jobs = <<>>
  /\ job_tasks = <<>>
  /\ tasks = <<>>
  /\ status = Status("none", None, None)
  /\ cleanup_pc = "none"
  /\ cleanup_cancel = FALSE
  /\ cleanup_wake = 0
  /\ shutdown_pc = "idle"
  /\ gathered = <<>>

ScheduleEntry ==
  \E target \in Targets, when_str \in EntryTexts, text \in MessageTexts :
    schedule_message_from_ui(target, when_str, text)

EntryNext ==
  \/ on_mount
  \/ ScheduleEntry
  \/ \E i \in DOMAIN tasks : StartJob(i)

(***************************************************************************)
(* Specifications                                                          *)
(***************************************************************************)
\* the scheduler before on_mount, with no clock correction
SchedIdle == SchedInit /\ time_delta_sec = 0

\* everything but the scheduler at rest, the application having been constructed
RestIdle == FetchIdle /\ DeliverIdle /\ NtpConstructed /\ ParseIdle /\ TreeIdle

Init == SchedInit /\ RestIdle

\* the application: on_mount, schedule calls, the units, the cleanup loop, shutdown
Spec == Init /\ [][Next]_vars

\* The event loop runs every callback that is ready: each step of a unit, of the
\* cleanup loop and of on_shutdown is taken once it stays possible.  The clock
\* goes on to the next pending deadline.  Nothing makes the user mount, schedule
\* or shut down, and nothing makes client.send_message come back.
Fairness ==
  /\ WF_vars(Tick)
  /\ \A i \in 1..MaxJobs :
       /\ WF_vars(StartJob(i))
       /\ WF_vars(TimerFire(i))
       /\ WF_vars(Resume(i))
       /\ WF_vars(SendCancelled(i))
  /\ WF_vars(CleanupStart)
  /\ WF_vars(CleanupSweep)
  /\ WF_vars(CleanupCancelled)
  /\ WF_vars(GatherDone)
  /\ WF_vars(ShutdownReturn)

InitFair == SchedInit /\ RestIdle

\* the application under a fair event loop and an advancing clock
SpecFair == InitFair /\ [][Next]_vars /\ Fairness

\* one call of get_all_forum_topics on any forum of up to MaxTopics topics
InitFetch ==
  FetchInit /\ SchedIdle /\ DeliverIdle /\ NtpConstructed /\ ParseIdle /\ TreeIdle

SpecFetch == InitFetch /\ [][FetchNext]_vars

\* one call of send_text_to_target on any target
InitDeliver ==
  DeliverInit /\ SchedIdle /\ FetchIdle /\ NtpConstructed /\ ParseIdle /\ TreeIdle

SpecDeliver == InitDeliver /\ [][DeliverNext]_vars

\* main_async from get_time_delta_ntp on, then the application
InitStartup ==
  SchedIdle /\ NtpInit /\ FetchIdle /\ DeliverIdle /\ ParseIdle /\ TreeIdle

SpecStartup == InitStartup /\ [][StartupNext]_vars

\* one call of parse_datetime on any text of ParseTexts
InitParse ==
  ParseInit /\ SchedIdle /\ FetchIdle /\ DeliverIdle /\ NtpConstructed /\ TreeIdle

SpecParse == InitParse /\ [][ParseNext]_vars

\* schedule calls at any of EntryClocks, with any of EntryOffsets and EntryTexts
InitEntry == EntryInit /\ RestIdle

SpecEntry == InitEntry /\ [][EntryNext]_vars

\* the dialog tree of the mounted application
InitTree == SchedInit /\ RestIdle

SpecTree == InitTree /\ [][TreeNext]_vars

(***************************************************************************)
(* Properties of get_all_forum_topics                                      *)
(***************************************************************************)
NumTopics == Len(forum)

\* C7 as claimed, for a forum that has topics: ceil(N / limit) requests when N is
\* no multiple of limit, N / limit requests when it is, and no request that comes
\* back with an empty page.
C7_NoTrailingRequest ==
  (pg_pc = "returned" /\ NumTopics > 0) =>
    /\ requests = IF NumTopics % limit = 0 THEN NumTopics \div limit
                  ELSE (NumTopics \div limit) + 1
    /\ \A k \in 1..Len(pages) : pages[k] > 0

\* C7 amended: ceil(N / limit) requests when N is no multiple of limit, and
\* N / limit + 1 when it is (N = 0 included): after a last full page one more
\* request is made, the only one that comes back empty.
C7_RequestCount ==
  pg_pc = "returned" =>
    /\ requests = (NumTopics \div limit) + 1
    /\ Len(pages) = requests
    /\ \A k \in 1..(Len(pages) - 1) : pages[k] = limit
    /\ pages[Len(pages)] = NumTopics % limit

\* a forum of exactly one full page has been fetched with two requests
C7_Witness ==
  pg_pc = "returned" /\ limit = 2 /\ NumTopics = 2 /\ requests = 2

\* C8: the list returned holds every topic with a title once and no other, pinned
\* topics first and, among the pinned and among the others, in the order of the
\* lower-cased titles.
C8_AllTitledOnceSorted ==
  pg_pc = "returned" =>
    /\ \A k \in 1..NumTopics :
         HasTitle(forum[k]) =>
           Cardinality({j \in 1..Len(result) :
                          /\ result[j].id = forum[k].id
                          /\ result[j].title = Val(forum[k].title)
                          /\ result[j].pinned = forum[k].pinned}) = 1
    /\ Len(result) = Cardinality({k \in 1..NumTopics : HasTitle(forum[k])})
    /\ \A i, j \in 1..Len(result) :
         i < j =>
           /\ result[i].pinned \/ ~result[j].pinned
           /\ result[i].pinned = result[j].pinned =>
                ~TextLess(LowerText(result[j].title), LowerText(result[i].title))

\* three topics in two pages, one without a title, returned as "a" before "B"
C8_Witness ==
  /\ pg_pc = "returned"
  /\ NumTopics = 3 /\ requests = 2
  /\ \E k \in 1..NumTopics : ~HasTitle(forum[k])
  /\ Len(result) = 2
  /\ result[1].title = <<"a">> /\ result[2].title = <<"B">>
  /\ result[1].pinned = result[2].pinned
  /\ result[1].id > result[2].id

(***************************************************************************)
(* Properties of send_text_to_target                                       *)
(***************************************************************************)
\* the send the claim asks for: a reply to the topic id when there is one other
\* than 1, a plain send otherwise
ExpectedSend(target, text) ==
  [entity |-> target.dialog,
   text |-> text,
   reply_to |-> IF ~IsNone(target.topic_id) /\ Val(target.topic_id) # 1
                THEN target.topic_id ELSE None]

\* C9: one invocation makes exactly one send call, a reply to the topic id when
\* the target has one other than 1 and a plain send otherwise (so topic id 1 and
\* no topic give the same call), and what the call raises is what leaves it.
C9_OneSendPerInvocation ==
  /\ dl_pc = "idle" => dl_calls = <<>>
  /\ dl_pc # "idle" =>
       /\ Len(dl_calls) = 1
       /\ dl_calls[1].call = ExpectedSend(dl_target, dl_text)
  /\ dl_pc = "returned" => dl_calls[1].outcome = "ok" /\ dl_error = None
  /\ dl_pc = "raised" =>
       dl_calls[1].outcome # "ok" /\ dl_error = Some(dl_calls[1].outcome)

\* a send to topic 1 went out as a plain send and its failure came back
C9_Witness ==
  /\ dl_pc = "raised"
  /\ dl_target.topic_id = Some(1)
  /\ dl_calls[1].call.reply_to = None
(***************************************************************************)
(* Properties of the time-only rollover                                    *)
(***************************************************************************)
\* a time text that is a colon-delimited time of day with no date in it, of at most
\* 8 characters: one of the two time-only grammars takes it
TimeOfDayEntry(when_str) ==
  ~IsNone(ParseTimeOnly(Strip(when_str), clock)) /\ Len(when_str) <= 8

\* C11: the job made from a time-of-day entry whose parsed time is not after
\* corrected-now is due one day after the parsed time; every other job is due at
\* the parsed time.
C11_RolloverRule ==
  [][\A target \in Targets, when_str \in EntryTexts, text \in MessageTexts :
       (schedule_message_from_ui(target, when_str, text) /\ Len(created') > Len(created))
         => LET parsed == Val(parse_datetime(when_str, clock))
            IN  created'[Len(created')].when =
                  IF TimeOfDayEntry(when_str) /\ parsed <= corrected_now
                  THEN parsed + SecondsPerDay
                  ELSE parsed]_vars

\* C19: the job made from a text that schedule_message_from_ui itself takes for a
\* time-only entry is due strictly after the corrected-now of that call.
C19_TimeOnlyDueAfterNow ==
  [][\A target \in Targets, when_str \in EntryTexts, text \in MessageTexts :
       (/\ schedule_message_from_ui(target, when_str, text)
        /\ Len(created') > Len(created)
        /\ IsTimeOnly(when_str))
         => created'[Len(created')].when > corrected_now]_vars

(***************************************************************************)
(* Properties of the dialog tree                                           *)
(***************************************************************************)
\* C12: a forum whose node shows the error of a failed fetch is not held in
\* topics_loaded, so that expanding the node again starts a new fetch.
C12_FailedExpansionCanBeRetried ==
  \A f \in ForumIds : node[f] = "error" => f \notin topics_loaded

(***************************************************************************)
(* Properties of get_time_delta_ntp                                        *)
(***************************************************************************)
\* C13: get_time_delta_ntp makes at most one request; when the import or the
\* request failed it returns 0; the application is built with the value returned
\* and no step changes it afterwards, so corrected-now is the local clock plus
\* that value in every later state.
C13_OffsetComputedOnce ==
  /\ [](/\ ntp_requests <= 1
        /\ (ntp_failed /\ ntp_pc \in {"returned", "constructed"}) => ntp_result = 0
        /\ Constructed => (time_delta_sec = ntp_result /\ corrected_now = clock + ntp_result))
  /\ [][Constructed => (time_delta_sec' = time_delta_sec /\ ntp_result' = ntp_result)]_vars

\* the request failed, and a job was later delivered by the clock without correction
C13_Witness ==
  /\ Constructed /\ ntp_failed /\ ntp_requests = 1
  /\ time_delta_sec = 0
  /\ clock > StartClock
  /\ \E i \in DOMAIN tasks : tasks[i].calls # <<>>

(***************************************************************************)
(* Properties of parse_datetime                                            *)
(***************************************************************************)
\* datetime(y, m, d, hh, mm, 0) on the day date.today() gives for pr_now
OnToday(hh, mm) ==
  LET t == CHOOSE t \in ParseTodays :
             pr_now = Val(MakeDateTime(t[1], t[2], t[3], t[4], t[5], t[6]))
  IN  MakeDateTime(t[1], t[2], t[3], hh, mm, 0)

\* C14: parse_datetime returns and never raises; an HH:MM text with hour 0..23 and
\* minute 0..59 gives today's date at that hour and minute, second 0; hour 24 or
\* minute 60 gives None; a text of either dated grammar gives the time of its
\* year, month, day, hour and minute, which is what the text of the other dated
\* grammar gives for the same fields.
C14_ParseGrammars ==
  /\ pr_pc # "raised"
  /\ pr_pc = "returned" =>
       /\ \A hh \in 0..MaxHour, mm \in 0..MaxMinute :
            pr_text = ClockText(hh, mm) =>
              pr_result = IF hh <= 23 /\ mm <= 59 THEN OnToday(hh, mm) ELSE None
       /\ \A y \in ParseYears, m \in ParseMonths, d \in ParseDays,
             hh \in ParseHours, mm \in ParseMinutes :
            /\ pr_text = YmdText(y, m, d, hh, mm) =>
                 /\ pr_result = MakeDateTime(y, m, d, hh, mm, 0)
                 /\ pr_result = parse_datetime(DmyText(y, m, d, hh, mm), pr_now)
            /\ pr_text = DmyText(y, m, d, hh, mm) =>
                 /\ pr_result = MakeDateTime(y, m, d, hh, mm, 0)
                 /\ pr_result = parse_datetime(YmdText(y, m, d, hh, mm), pr_now)

\* "15.01.2030 09:30" has been parsed to 2030-01-15 09:30:00
C14_Witness ==
  /\ pr_pc = "returned"
  /\ pr_text = DmyText(2030, 1, 15, 9, 30)
  /\ pr_result = MakeDateTime(2030, 1, 15, 9, 30, 0)
  /\ ~IsNone(pr_result)

(***************************************************************************)
(* More properties of the scheduler                                        *)
(***************************************************************************)
\* the unit of job i has reported the outcome of its send
Reported(i) == tasks[i].ok_reports + tasks[i].fail_reports = 1

\* C15: the job of a unit that is through with its delivery attempt is no longer
\* in self.jobs.
C15_CompletedJobLeavesPending ==
  \A i \in DOMAIN tasks : Reported(i) => i \notin Range(jobs)

\* C17: a unit that starts when its job's due time is at or before corrected-now
\* does not go to sleep: unless it was cancelled before its first step, that step
\* takes it into its one delivery call.
C17_PastDueGoesStraightToSend ==
  [][\A i \in DOMAIN tasks :
       (/\ tasks[i].pc = "new"
        /\ tasks'[i].pc # "new"
        /\ created[i].when <= corrected_now)
         => /\ tasks'[i].pc \notin {"sleeping", "woken"}
            /\ tasks'[i].wake = 0
            /\ ~tasks[i].cancel =>
                 (tasks'[i].pc = "sending" /\ Len(tasks'[i].calls) = 1)]_vars

\* a job entered with a date already past is in its delivery call and never slept
C17_Witness ==
  \E i \in DOMAIN tasks :
    /\ created[i].when < StartClock
    /\ tasks[i].pc = "sending"
    /\ tasks[i].wake = 0

\* some unit of the live set ended cancelled
CancelledInLiveSet == \E k \in 1..Len(job_tasks) : tasks[job_tasks[k]].pc = "cancelled"

\* C18: the step in which a unit reports the failure of its send changes nothing
\* but that unit and the status line; a unit is cancelled by shutdown only; and a
\* pass of the cleanup loop over finished units, failed ones among them, prunes
\* both lists and goes on to the next interval.
C18_FailureIsLocal ==
  /\ [](\A i \in DOMAIN tasks : tasks[i].cancel => shutdown_pc # "idle")
  /\ [][\A i \in DOMAIN tasks :
          tasks'[i].fail_reports > tasks[i].fail_reports
            => /\ \A j \in DOMAIN tasks : j # i => tasks'[j] = tasks[j]
               /\ UNCHANGED <<created, jobs, job_tasks, cleanup_pc, cleanup_cancel,
                              cleanup_wake, shutdown_pc, gathered, clock>>]_vars
  /\ [][(CleanupSweep /\ ~CancelledInLiveSet)
          => /\ cleanup_pc' = "sleeping"
             /\ cleanup_wake' = clock + CLEANUP_INTERVAL
             /\ job_tasks' = ActiveTasks
             /\ jobs' = UnexpiredJobs(corrected_now)]_vars

\* one unit has failed, another one slept until its due time and delivered, and
\* the cleanup loop has dropped the failed unit and sleeps again
C18_Witness ==
  /\ cleanup_pc = "sleeping"
  /\ cleanup_wake > StartClock + CLEANUP_INTERVAL
  /\ \E i, j \in DOMAIN tasks :
       /\ tasks[i].fail_reports = 1
       /\ i \notin Range(job_tasks)
       /\ tasks[j].ok_reports = 1
       /\ tasks[j].wake > StartClock

\* C20: every unit that is not finished is in self.job_tasks; a pass of the cleanup
\* loop takes only finished units out of it; and on_shutdown requests the
\* cancellation of every unit that is not finished.
C20_LiveSetHoldsUnfinished ==
  /\ [](\A i \in DOMAIN tasks : ~Done(i) => i \in Range(job_tasks))
  /\ [][CleanupSweep =>
          \A i \in Range(job_tasks) : i \notin Range(job_tasks') => Done(i)]_vars
  /\ [][on_shutdown => \A i \in DOMAIN tasks : ~Done(i) => tasks'[i].cancel]_vars

\* a pass has dropped a finished unit, and shutdown has reached one that was not
C20_Witness ==
  /\ Len(job_tasks) < Len(tasks)
  /\ \E i \in Range(job_tasks) : tasks[i].cancel /\ tasks[i].cancel_at = "sleeping"

(***************************************************************************)
(* The cursor of get_all_forum_topics                                      *)
(***************************************************************************)
\* the page the next request brings
NextPage == GetForumTopicsRequest(offset_date, offset_id, offset_topic, limit).topics

\* C16: the cursor starts as (None, 0, 0); after a full page it names the last topic
\* of the page, titled or not, that topic's top message, and the date of the message
\* with that id when the page has it, else None; after an empty or short page it
\* stays as it is and the function returns without a further request.
C16_CursorFromLastTopic ==
  /\ []((pg_pc = "running" /\ requests = 0) =>
          (offset_date = None /\ offset_id = 0 /\ offset_topic = 0))
  /\ [][FetchPage =>
          IF Len(NextPage) = limit
          THEN LET last == NextPage[limit]
               IN  /\ pg_pc' = "running"
                   /\ offset_topic' = last.id
                   /\ offset_id' = last.top_message
                   /\ offset_date' = IF HasMessage(last) THEN Some(MessageDate(last))
                                     ELSE None
          ELSE /\ pg_pc' = "returned"
               /\ UNCHANGED <<offset_date, offset_id, offset_topic>>]_vars
  /\ [][pg_pc = "returned" => requests' = requests]_vars

\* the cursor names a topic without a title, with the date of its top message
C16_Witness ==
  /\ pg_pc = "running"
  /\ offset_topic = 2
  /\ ~HasTitle(forum[2])
  /\ HasTitle(forum[1])
  /\ offset_id = forum[2].top_message
  /\ offset_date = Some(MessageDate(forum[2]))

(***************************************************************************)
(* Progress of the scheduler                                               *)
(***************************************************************************)
\* the last instant the clock of the model gets to
Horizon == StartClock + MaxIntervals * CLEANUP_INTERVAL

\* the local clock at which job i is due
DueClock(i) == created[i].when - time_delta_sec

\* the cleanup loop has neither ended nor been told to
CleanupAlive == cleanup_pc \in {"new", "sleeping"} /\ ~cleanup_cancel

\* C21: under a fair event loop and an advancing clock, the unit of every job due
\* within the time the clock covers gets to its delivery call, unless it is
\* cancelled or the application has shut down first; and a job whose due time has
\* passed while the cleanup loop sleeps towards a pass within that time is taken
\* out of self.jobs, unless the loop ends first.
C21_DeliveredAndRemovedInTime ==
  \A i \in 1..MaxJobs :
    /\ (i \in DOMAIN tasks /\ DueClock(i) <= Horizon)
         ~> (\/ i \in DOMAIN tasks /\ (tasks[i].calls # <<>> \/ tasks[i].cancel)
             \/ ~Running)
    /\ (/\ i \in Range(jobs)
        /\ created[i].when <= corrected_now
        /\ CleanupAlive /\ cleanup_pc = "sleeping" /\ cleanup_wake <= Horizon)
         ~> (i \notin Range(jobs) \/ ~CleanupAlive)

\* a job that slept until its due time has been delivered and a later pass of the
\* cleanup loop, still alive, has taken it out of self.jobs
C21_Witness ==
  /\ CleanupAlive
  /\ shutdown_pc = "idle"
  /\ \E i \in DOMAIN tasks :
       /\ tasks[i].calls # <<>>
       /\ tasks[i].wake > StartClock
       /\ i \notin Range(jobs)
====
